---- MODULE Spec2Model ----
(***************************************************************************)
(* VectorUtils of the Brain AI Rust SDK (sdk/rust/brain-ai.rs).            *)
(*                                                                         *)
(* The four functions work on f64.  The model keeps the IEEE-754 binary    *)
(* arithmetic of f64 (round to nearest, ties to even, gradual underflow,   *)
(* overflow to infinity, signed zeros, NaN) and shrinks only the width of  *)
(* the format: Precision significand bits instead of 53 and ExpTop + 1     *)
(* binades instead of 2046.                                                *)
(***************************************************************************)
EXTENDS Integers, Sequences, FiniteSets, TLC

(* ----------------------------------------------------------------------- *)
(* Bounds of the model                                                     *)
(* ----------------------------------------------------------------------- *)

\* significand bits of the float format, hidden bit included (f64: 53)
Precision == 3
\* index of the binade [1.0, 2.0); binade 0 holds the subnormals and the
\* smallest normals (f64: 1022)
ExpOne == 2
\* binades above the binade of 1.0 (f64: 1023)
ExpAbove == 2
\* longest input vector, largest `dimensions`
MaxLen == 2

(* ----------------------------------------------------------------------- *)
(* f64, narrowed                                                           *)
(* ----------------------------------------------------------------------- *)

RECURSIVE Pow2(_)
Pow2(n) == IF n = 0 THEN 1 ELSE 2 * Pow2(n - 1)

\* index of the top binade
ExpTop == ExpOne + ExpAbove

\* A finite float is sign * mag * Ulp0, Ulp0 the smallest subnormal; mag is
\* the magnitude counted in units of Ulp0.  1.0 is UnitOne units.
UnitOne == Pow2(Precision - 1 + ExpOne)
MaxMag == (Pow2(Precision) - 1) * Pow2(ExpTop)

Fin(neg, mag) == [cls |-> "fin", neg |-> neg, mag |-> mag]
Inf(neg) == [cls |-> "inf", neg |-> neg, mag |-> 0]
NaN == [cls |-> "nan", neg |-> FALSE, mag |-> 0]

PosZero == Fin(FALSE, 0)
NegZero == Fin(TRUE, 0)
One == Fin(FALSE, UnitOne)
MinPositive == Fin(FALSE, 1)
MaxFloat == Fin(FALSE, MaxMag)
PosInf == Inf(FALSE)

IsNaN(x) == x.cls = "nan"
IsFinite(x) == x.cls = "fin"
IsZero(x) == x.cls = "fin" /\ x.mag = 0

\* spacing of the floats around a magnitude whose integer part is q
RECURSIVE Spacing(_)
Spacing(q) == IF q < Pow2(Precision) THEN 1 ELSE 2 * Spacing(q \div 2)

\* The float nearest to the exact magnitude num/den (in units of Ulp0), the
\* floats around it being `step` apart: ties go to the even significand;
\* beyond the largest finite float, infinity.
RoundTo(neg, num, den, step) ==
    LET lo == ((num \div den) \div step) * step
        hi == lo + step
        twice == 2 * num
        mid == (lo + hi) * den
        pick == IF twice < mid THEN lo
                ELSE IF twice > mid THEN hi
                ELSE IF (lo \div step) % 2 = 0 THEN lo ELSE hi
    IN  IF pick > MaxMag THEN Inf(neg) ELSE Fin(neg, pick)

\* The float nearest to the exact magnitude num/den.  num and den are bound
\* to their values here, so that an operand is worked out once per operation.
RoundNearest(neg, num, den) ==
    CHOOSE r \in {RoundTo(neg, f[1], f[2], f[3]) :
                     f \in {<<n, d, Spacing(n \div d)>> :
                              n \in {num}, d \in {den}}} : TRUE

RECURSIVE ISqrt(_)
ISqrt(n) ==
    IF n < 2 THEN n
    ELSE CHOOSE r \in {IF (s + 1) * (s + 1) <= n THEN s + 1 ELSE s :
                          s \in {2 * ISqrt(n \div 4)}} : TRUE

\* the float nearest to the exact square root of the integer n, q being the
\* integer part of that root
SqrtTo(n, q) ==
    LET step == Spacing(q)
        lo == (q \div step) * step
        hi == lo + step
        pick == IF 4 * n < (lo + hi) * (lo + hi) THEN lo
                ELSE IF 4 * n > (lo + hi) * (lo + hi) THEN hi
                ELSE IF (lo \div step) % 2 = 0 THEN lo ELSE hi
    IN  IF pick > MaxMag THEN Inf(FALSE) ELSE Fin(FALSE, pick)

\* the float nearest to the exact square root of the integer n (units of Ulp0)
RoundSqrt(n) ==
    CHOOSE r \in {SqrtTo(f[1], f[2]) :
                     f \in {<<m, ISqrt(m)>> : m \in {n}}} : TRUE

\* signed integer value of a finite float, in units of Ulp0
Signed(x) == IF x.neg THEN 0 - x.mag ELSE x.mag

\* x * y
FMul(x, y) ==
    IF IsNaN(x) \/ IsNaN(y) THEN NaN
    ELSE IF x.cls = "inf" \/ y.cls = "inf"
         THEN IF IsZero(x) \/ IsZero(y) THEN NaN ELSE Inf(x.neg # y.neg)
    ELSE RoundNearest(x.neg # y.neg, x.mag * y.mag, UnitOne)

\* x + y
FAdd(x, y) ==
    IF IsNaN(x) \/ IsNaN(y) THEN NaN
    ELSE IF x.cls = "inf" /\ y.cls = "inf"
         THEN IF x.neg = y.neg THEN x ELSE NaN
    ELSE IF x.cls = "inf" THEN x
    ELSE IF y.cls = "inf" THEN y
    ELSE LET s == Signed(x) + Signed(y)
         IN  IF s = 0 THEN Fin(x.neg /\ y.neg, 0)
             ELSE IF s < 0 THEN RoundNearest(TRUE, 0 - s, 1)
             ELSE RoundNearest(FALSE, s, 1)

FNeg(x) == IF IsNaN(x) THEN NaN ELSE [x EXCEPT !.neg = ~x.neg]

\* x - y
FSub(x, y) == FAdd(x, FNeg(y))

\* x / y
FDiv(x, y) ==
    IF IsNaN(x) \/ IsNaN(y) THEN NaN
    ELSE IF x.cls = "inf"
         THEN IF y.cls = "inf" THEN NaN ELSE Inf(x.neg # y.neg)
    ELSE IF y.cls = "inf" THEN Fin(x.neg # y.neg, 0)
    ELSE IF IsZero(y)
         THEN IF IsZero(x) THEN NaN ELSE Inf(x.neg # y.neg)
    ELSE RoundNearest(x.neg # y.neg, x.mag * UnitOne, y.mag)

\* x.sqrt()
FSqrt(x) ==
    IF IsNaN(x) THEN NaN
    ELSE IF IsZero(x) THEN x
    ELSE IF x.neg THEN NaN
    ELSE IF x.cls = "inf" THEN x
    ELSE RoundSqrt(x.mag * UnitOne)

\* x == y on f64: NaN equals nothing, +0.0 equals -0.0
FEq(x, y) ==
    /\ ~IsNaN(x)
    /\ ~IsNaN(y)
    /\ \/ IsZero(x) /\ IsZero(y)
       \/ x = y

\* x < y on f64
FLt(x, y) ==
    /\ ~IsNaN(x)
    /\ ~IsNaN(y)
    /\ IF x.cls = "inf" THEN x.neg /\ ~(y.cls = "inf" /\ y.neg)
       ELSE IF y.cls = "inf" THEN ~y.neg
       ELSE Signed(x) < Signed(y)

\* x <= y on f64
FLe(x, y) == FLt(x, y) \/ FEq(x, y)

(* ----------------------------------------------------------------------- *)
(* Results of a call                                                       *)
(* ----------------------------------------------------------------------- *)

\* no f64 (the call returned a vector, panicked, or has not run)
NoFloat == [cls |-> "none", neg |-> FALSE, mag |-> 0]

\* the call returned the f64 `num` after `ops` arithmetic operations on
\* f64, `divs` of them divisions
ReturnedNum(num, ops, divs) ==
    [outcome |-> "returned", num |-> num, vec |-> <<>>, buf |-> "none",
     ops |-> ops, divs |-> divs]

\* the call returned a Vec<f64> it allocated
ReturnedVec(vec, ops, divs) ==
    [outcome |-> "returned", num |-> NoFloat, vec |-> vec, buf |-> "new",
     ops |-> ops, divs |-> divs]

\* the call unwound in panic!() after `ops` arithmetic operations
Panicked(ops) ==
    [outcome |-> "panicked", num |-> NoFloat, vec |-> <<>>, buf |-> "none",
     ops |-> ops, divs |-> 0]

(* ----------------------------------------------------------------------- *)
(* VectorUtils                                                             *)
(* ----------------------------------------------------------------------- *)

\* the for loop of cosine_similarity, from index i on (i counts from 1)
RECURSIVE CosineLoop(_, _, _, _)
CosineLoop(vec_a, vec_b, i, acc) ==
    IF i > Len(vec_a) THEN acc
    ELSE CosineLoop(vec_a, vec_b, i + 1,
           [dot_product |-> FAdd(acc.dot_product, FMul(vec_a[i], vec_b[i])),
            norm_a |-> FAdd(acc.norm_a, FMul(vec_a[i], vec_a[i])),
            norm_b |-> FAdd(acc.norm_b, FMul(vec_b[i], vec_b[i]))])

\* cosine_similarity without its length check: the loop indexes vec_b by the
\* indices of vec_a, which panics out of bounds only when vec_b is shorter
cosine_similarity_unchecked(vec_a, vec_b) ==
    IF Len(vec_a) > Len(vec_b) THEN Panicked(6 * Len(vec_b))
    ELSE LET acc == CosineLoop(vec_a, vec_b, 1,
                      [dot_product |-> PosZero, norm_a |-> PosZero,
                       norm_b |-> PosZero])
             denominator == FMul(FSqrt(acc.norm_a), FSqrt(acc.norm_b))
         IN  IF FEq(denominator, PosZero)
             THEN ReturnedNum(PosZero, 6 * Len(vec_a) + 3, 0)
             ELSE ReturnedNum(FDiv(acc.dot_product, denominator),
                              6 * Len(vec_a) + 4, 1)

\* cosine_similarity with the square root of norm_b left out
cosine_similarity_norm_b_squared(vec_a, vec_b) ==
    IF Len(vec_a) # Len(vec_b) THEN Panicked(0)
    ELSE LET acc == CosineLoop(vec_a, vec_b, 1,
                      [dot_product |-> PosZero, norm_a |-> PosZero,
                       norm_b |-> PosZero])
             denominator == FMul(FSqrt(acc.norm_a), acc.norm_b)
         IN  IF FEq(denominator, PosZero)
             THEN ReturnedNum(PosZero, 6 * Len(vec_a) + 2, 0)
             ELSE ReturnedNum(FDiv(acc.dot_product, denominator),
                              6 * Len(vec_a) + 3, 1)

\* VectorUtils::cosine_similarity
cosine_similarity(vec_a, vec_b) ==
    IF Len(vec_a) # Len(vec_b) THEN Panicked(0)
    ELSE LET acc == CosineLoop(vec_a, vec_b, 1,
                      [dot_product |-> PosZero, norm_a |-> PosZero,
                       norm_b |-> PosZero])
             denominator == FMul(FSqrt(acc.norm_a), FSqrt(acc.norm_b))
             ops == 6 * Len(vec_a) + 3
         IN  IF FEq(denominator, PosZero)
             THEN ReturnedNum(PosZero, ops, 0)
             ELSE ReturnedNum(FDiv(acc.dot_product, denominator), ops + 1, 1)

\* Iterator::sum::<f64>(): a left fold with + from the neutral element
RECURSIVE SumF64(_, _, _)
SumF64(terms, i, acc) ==
    IF i > Len(terms) THEN acc
    ELSE SumF64(terms, i + 1, FAdd(acc, terms[i]))

\* normalize without its zero-norm branch
normalize_always_divides(vector, zero) ==
    LET squares == [i \in 1..Len(vector) |-> FMul(vector[i], vector[i])]
        norm == FSqrt(SumF64(squares, 1, zero))
    IN  ReturnedVec([i \in 1..Len(vector) |-> FDiv(vector[i], norm)],
                    3 * Len(vector) + 1, Len(vector))

\* VectorUtils::normalize; `zero` is the neutral element sum() starts from
normalize(vector, zero) ==
    LET squares == [i \in 1..Len(vector) |-> FMul(vector[i], vector[i])]
        norm == FSqrt(SumF64(squares, 1, zero))
        ops == 2 * Len(vector) + 1
    IN  IF FEq(norm, PosZero)
        THEN ReturnedVec(vector, ops, 0)
        ELSE ReturnedVec([i \in 1..Len(vector) |-> FDiv(vector[i], norm)],
                         ops + Len(vector), Len(vector))

\* euclidean_distance summing the differences instead of their squares
euclidean_distance_unsquared(vec_a, vec_b, zero) ==
    IF Len(vec_a) # Len(vec_b) THEN Panicked(0)
    ELSE LET diffs == [i \in 1..Len(vec_a) |-> FSub(vec_a[i], vec_b[i])]
         IN  ReturnedNum(FSqrt(SumF64(diffs, 1, zero)), 2 * Len(vec_a) + 1, 0)

\* euclidean_distance with a + vec_b[i] for the difference
euclidean_distance_adds(vec_a, vec_b, zero) ==
    IF Len(vec_a) # Len(vec_b) THEN Panicked(0)
    ELSE LET squares == [i \in 1..Len(vec_a) |->
                           LET diff == FAdd(vec_a[i], vec_b[i])
                           IN  FMul(diff, diff)]
         IN  ReturnedNum(FSqrt(SumF64(squares, 1, zero)),
                         3 * Len(vec_a) + 1, 0)

\* VectorUtils::euclidean_distance
euclidean_distance(vec_a, vec_b, zero) ==
    IF Len(vec_a) # Len(vec_b) THEN Panicked(0)
    ELSE LET squares == [i \in 1..Len(vec_a) |->
                           LET diff == FSub(vec_a[i], vec_b[i])
                           IN  FMul(diff, diff)]
             sum == SumF64(squares, 1, zero)
         IN  ReturnedNum(FSqrt(sum), 3 * Len(vec_a) + 1, 0)

\* magnitudes of the finite floats
Magnitudes == {m \in 0..MaxMag : m % Spacing(m) = 0}

FiniteFloats == {Fin(neg, m) : neg \in BOOLEAN, m \in Magnitudes}

\* rng.gen_range(min..max) of the rand crate: it panics on an empty range
\* (min < max is false) and on a range whose width max - min is not finite;
\* otherwise it returns some f64 of [min, max).  Which one is the
\* generator's choice: the set holds every outcome.
gen_range(min, max) ==
    IF ~FLt(min, max) \/ ~IsFinite(FSub(max, min)) THEN {NoFloat}
    ELSE {c \in FiniteFloats : FLe(min, c) /\ FLt(c, max)}

\* random_vector over 0..=dimensions: one component too many
random_vector_one_more(dimensions, min, max) ==
    IF NoFloat \in gen_range(min, max) THEN {Panicked(0)}
    ELSE {ReturnedVec(v, 0, 0) :
            v \in [1..dimensions + 1 -> gen_range(min, max)]}

\* VectorUtils::random_vector: every outcome the generator allows
random_vector(dimensions, min, max) ==
    IF dimensions = 0 THEN {ReturnedVec(<<>>, 0, 0)}
    ELSE IF NoFloat \in gen_range(min, max) THEN {Panicked(0)}
    ELSE {ReturnedVec(v, 0, 0) : v \in [1..dimensions -> gen_range(min, max)]}

(* ----------------------------------------------------------------------- *)
(* The calls                                                               *)
(* ----------------------------------------------------------------------- *)

\* the f64 the callers put into their vectors
InputFloats ==
    {PosZero, NegZero, One, Fin(TRUE, 3 * (UnitOne \div 2)), MaxFloat,
     PosInf, NaN}

\* the <<min, max>> the callers pass to random_vector: ranges around zero
\* and above 1.0, empty ranges (min == max, min > max), ranges wider than
\* the largest finite f64, infinite and NaN bounds
InputRanges ==
    {<<Fin(TRUE, 1), Fin(FALSE, 2)>>,
     <<One, Fin(FALSE, 2 * UnitOne)>>,
     <<PosZero, MinPositive>>,
     <<NegZero, PosZero>>,
     <<One, One>>,
     <<MaxFloat, MaxFloat>>,
     <<One, PosZero>>,
     <<FNeg(MaxFloat), MaxFloat>>,
     <<One, PosInf>>,
     <<PosInf, PosInf>>,
     <<NaN, One>>,
     <<One, NaN>>}

Vectors == UNION {[1..n -> InputFloats] : n \in 0..MaxLen}

\* the neutral element of <f64 as Sum>: 0.0, and -0.0 in later toolchains
SumNeutral == {PosZero, NegZero}

VARIABLES
    fn,             \* the VectorUtils function the caller calls
    in_a,           \* the caller's first vector (vec_a, vector)
    in_b,           \* the caller's second vector (vec_b)
    in_dimensions,  \* random_vector's dimensions
    in_min,         \* random_vector's min
    in_max,         \* random_vector's max
    outcome,        \* "pending", "returned" or "panicked"
    ret_num,        \* the f64 returned
    ret_vec,        \* the Vec<f64> returned
    ret_buf,        \* the buffer that holds ret_vec
    ops,            \* arithmetic operations the call performed
    divs            \* divisions among them

vars == <<fn, in_a, in_b, in_dimensions, in_min, in_max, outcome, ret_num,
          ret_vec, ret_buf, ops, divs>>

inputs == <<fn, in_a, in_b, in_dimensions, in_min, in_max>>

\* Concurrent calls of VectorUtils, one per thread
VARIABLES
    t_call,         \* per thread: the function it calls and its own vectors
    t_pc,           \* per thread: where the call stands
    t_local,        \* per thread: the locals on its stack
    t_ret           \* per thread: what the call returned

tvars == <<t_call, t_pc, t_local, t_ret>>

\* no thread calls VectorUtils
ThreadsIdle ==
    /\ t_call = <<>>
    /\ t_pc = <<>>
    /\ t_local = <<>>
    /\ t_ret = <<>>

\* ClientFactory
VARIABLES
    clients,        \* the HashMap<String, BrainAISDK> behind the mutex
    mutex,          \* the thread that holds the MutexGuard, or "free"
    agents,         \* the number of ureq Agents built so far
    f_call,         \* per thread: the ClientFactory call in progress
    f_pc,           \* per thread: where the call stands
    f_ret,          \* per thread: the client the last get_instance returned
    f_log           \* the calls in the order they took the lock

fvars == <<clients, mutex, agents, f_call, f_pc, f_ret, f_log>>

\* no ClientFactory exists
FactoryIdle ==
    /\ clients = {}
    /\ mutex = "free"
    /\ agents = 0
    /\ f_call = <<>>
    /\ f_pc = <<>>
    /\ f_ret = <<>>
    /\ f_log = <<>>

\* BrainAISDK::health_check
VARIABLES
    h_config,       \* the BrainAIConfig of the client
    h_pc,           \* where health_check stands
    h_request,      \* the request make_request built
    h_response,     \* what the network did with the status request
    h_result,       \* the Result make_request returned
    h_ret           \* the Result health_check returned

hvars == <<h_config, h_pc, h_request, h_response, h_result, h_ret>>

\* no client checks the service
HealthIdle ==
    /\ h_config = "none"
    /\ h_pc = "idle"
    /\ h_request = "none"
    /\ h_response = "none"
    /\ h_result = "none"
    /\ h_ret = "none"

allvars == <<vars, tvars, fvars, hvars>>

\* no single call of VectorUtils is under way
VectorIdle ==
    /\ fn = "none"
    /\ in_a = <<>>
    /\ in_b = <<>>
    /\ in_dimensions = 0
    /\ in_min = PosZero
    /\ in_max = PosZero
    /\ outcome = "none"
    /\ ret_num = NoFloat
    /\ ret_vec = <<>>
    /\ ret_buf = "none"
    /\ ops = 0
    /\ divs = 0

Init ==
    /\ \/ /\ fn \in {"cosine_similarity", "euclidean_distance"}
          /\ in_a \in Vectors
          /\ in_b \in Vectors
          /\ in_dimensions = 0
          /\ in_min = PosZero
          /\ in_max = PosZero
       \/ /\ fn = "normalize"
          /\ in_a \in Vectors
          /\ in_b = <<>>
          /\ in_dimensions = 0
          /\ in_min = PosZero
          /\ in_max = PosZero
       \/ /\ fn = "random_vector"
          /\ in_a = <<>>
          /\ in_b = <<>>
          /\ in_dimensions \in 0..MaxLen
          /\ \E range \in InputRanges :
               /\ in_min = range[1]
               /\ in_max = range[2]
    /\ outcome = "pending"
    /\ ret_num = NoFloat
    /\ ret_vec = <<>>
    /\ ret_buf = "none"
    /\ ops = 0
    /\ divs = 0
    /\ ThreadsIdle
    /\ FactoryIdle
    /\ HealthIdle

\* the call ends with result r; the callee holds its vectors by & reference
Finish(r) ==
    /\ outcome' = r.outcome
    /\ ret_num' = r.num
    /\ ret_vec' = r.vec
    /\ ret_buf' = r.buf
    /\ ops' = r.ops
    /\ divs' = r.divs
    /\ UNCHANGED <<inputs, tvars, fvars, hvars>>

CosineSimilarity ==
    /\ fn = "cosine_similarity"
    /\ outcome = "pending"
    /\ Finish(cosine_similarity(in_a, in_b))

\* normalize that scales the caller's vector in place and hands it back
NormalizeInPlace ==
    /\ fn = "normalize"
    /\ outcome = "pending"
    /\ \E zero \in SumNeutral :
         LET r == normalize(in_a, zero)
         IN  /\ in_a' = r.vec
             /\ outcome' = r.outcome
             /\ ret_num' = r.num
             /\ ret_vec' = r.vec
             /\ ret_buf' = "in_a"
             /\ ops' = r.ops
             /\ divs' = r.divs
             /\ UNCHANGED <<fn, in_b, in_dimensions, in_min, in_max>>
             /\ UNCHANGED <<tvars, fvars, hvars>>

Normalize ==
    /\ fn = "normalize"
    /\ outcome = "pending"
    /\ \E zero \in SumNeutral : Finish(normalize(in_a, zero))

EuclideanDistance ==
    /\ fn = "euclidean_distance"
    /\ outcome = "pending"
    /\ \E zero \in SumNeutral : Finish(euclidean_distance(in_a, in_b, zero))

RandomVector ==
    /\ fn = "random_vector"
    /\ outcome = "pending"
    /\ \E r \in random_vector(in_dimensions, in_min, in_max) : Finish(r)

Next ==
    \/ CosineSimilarity
    \/ Normalize
    \/ EuclideanDistance
    \/ RandomVector

Spec == Init /\ [][Next]_allvars

(* ----------------------------------------------------------------------- *)
(* Properties                                                              *)
(* ----------------------------------------------------------------------- *)

Done == outcome # "pending"

\* every component is a finite f64
AllFinite(v) == \A i \in 1..Len(v) : IsFinite(v[i])

\* the norm of v is zero: v is empty or every component is +0.0 or -0.0
ZeroNorm(v) == \A i \in 1..Len(v) : IsZero(v[i])

\* C1: a call of cosine_similarity or euclidean_distance with vectors of
\* different lengths panics, having performed no arithmetic on the
\* components, and returns no number.
C1_MismatchPanics ==
    (/\ fn \in {"cosine_similarity", "euclidean_distance"}
     /\ Done
     /\ Len(in_a) # Len(in_b))
    => /\ outcome = "panicked"
       /\ ret_num = NoFloat
       /\ ops = 0

C1_Witness ==
    /\ fn = "cosine_similarity"
    /\ outcome = "panicked"
    /\ Len(in_a) = MaxLen - 1
    /\ Len(in_b) = MaxLen

\* C2 (as claimed, on finite inputs): cosine_similarity of equal-length
\* vectors of finite components, one of them of norm zero, returns 0.0 and
\* divides nothing.
C2_ZeroNormGivesZero ==
    (/\ fn = "cosine_similarity"
     /\ Done
     /\ Len(in_a) = Len(in_b)
     /\ AllFinite(in_a)
     /\ AllFinite(in_b)
     /\ ZeroNorm(in_a) \/ ZeroNorm(in_b))
    => /\ outcome = "returned"
       /\ ret_num = PosZero
       /\ divs = 0

\* C3: normalize of a vector of norm zero (empty, or all components zero)
\* returns a vector equal to it component by component and does not panic.
C3_ZeroVectorUnchanged ==
    (/\ fn = "normalize"
     /\ Done
     /\ ZeroNorm(in_a))
    => /\ outcome = "returned"
       /\ ret_vec = in_a

C3_Witness ==
    /\ fn = "normalize"
    /\ outcome = "returned"
    /\ Len(in_a) = MaxLen
    /\ ZeroNorm(in_a)
    /\ in_a[1] = NegZero
    /\ ret_vec = in_a

\* every component of v lies in [min, max)
InRange(v, min, max) ==
    \A i \in 1..Len(v) : FLe(min, v[i]) /\ FLt(v[i], max)

\* C4 (as claimed): for min <= max, min == max included, random_vector
\* returns dimensions components, each in [min, max).
C4_RandomVectorClosedBounds ==
    (/\ fn = "random_vector"
     /\ Done
     /\ FLe(in_min, in_max))
    => /\ outcome = "returned"
       /\ Len(ret_vec) = in_dimensions
       /\ InRange(ret_vec, in_min, in_max)

\* C4 (amended): for min < max with max - min finite, random_vector returns
\* dimensions components, each in [min, max); for dimensions = 0 it returns
\* the empty vector whatever min and max are; for dimensions > 0 and
\* min == max, or max - min not finite, it panics.
C4_RandomVectorInRange ==
    (/\ fn = "random_vector"
     /\ Done
     /\ FLe(in_min, in_max))
    => IF in_dimensions = 0
       THEN outcome = "returned" /\ ret_vec = <<>>
       ELSE IF FLt(in_min, in_max) /\ IsFinite(FSub(in_max, in_min))
       THEN /\ outcome = "returned"
            /\ Len(ret_vec) = in_dimensions
            /\ InRange(ret_vec, in_min, in_max)
       ELSE outcome = "panicked"

C4_Witness ==
    /\ fn = "random_vector"
    /\ outcome = "returned"
    /\ in_dimensions = MaxLen
    /\ FLt(in_min, PosZero)
    /\ FLt(PosZero, in_max)
    /\ Len(ret_vec) = MaxLen
    /\ ret_vec[1] = in_min
    /\ FLt(PosZero, ret_vec[MaxLen])

Abs(n) == IF n < 0 THEN 0 - n ELSE n

\* x is 1.0 within the floating-point tolerance, two units in the last
\* place of 1.0
NearOne(x) ==
    /\ IsFinite(x)
    /\ ~x.neg
    /\ Abs(x.mag - UnitOne) * Pow2(Precision - 2) <= UnitOne

\* exact sum of the squares of the components, in units of Ulp0 * Ulp0
RECURSIVE SumOfSquares(_, _)
SumOfSquares(v, i) ==
    IF i > Len(v) THEN 0 ELSE v[i].mag * v[i].mag + SumOfSquares(v, i + 1)

\* the sum of the squares of v's components is 1 within the tolerance
UnitNorm(v) ==
    /\ AllFinite(v)
    /\ Abs(SumOfSquares(v, 1) - UnitOne * UnitOne) * Pow2(Precision - 2)
         <= UnitOne * UnitOne

\* the norm of v as the code accumulates it: sqrt of the sum of the squares
ComputedNorm(v) ==
    FSqrt(SumF64([i \in 1..Len(v) |-> FMul(v[i], v[i])], 1, PosZero))

\* v has finite components and a norm that the code computes as non-zero
NonZeroNorm(v) == AllFinite(v) /\ ~FEq(ComputedNorm(v), PosZero)

\* C5 (as claimed, on finite inputs): normalize of a vector of finite
\* components and non-zero norm returns a vector of the same length whose
\* sum of squares is 1 within the tolerance, each component with the sign
\* of the input's.
C5_NormalizeGivesUnitVector ==
    (/\ fn = "normalize"
     /\ Done
     /\ NonZeroNorm(in_a))
    => /\ outcome = "returned"
       /\ Len(ret_vec) = Len(in_a)
       /\ UnitNorm(ret_vec)
       /\ \A i \in 1..Len(in_a) : ret_vec[i].neg = in_a[i].neg

\* the same f64 to ==, or NaN on both sides
SameResult(x, y) == FEq(x, y) \/ (IsNaN(x) /\ IsNaN(y))

\* C6 (as claimed): cosine_similarity(a, b) == cosine_similarity(b, a) for
\* all a, b of equal length.
C6_CosineSymmetricEq ==
    (/\ fn = "cosine_similarity"
     /\ Done
     /\ Len(in_a) = Len(in_b))
    => /\ outcome = "returned"
       /\ FEq(ret_num, cosine_similarity(in_b, in_a).num)

\* C6 (amended): for all a, b of equal length cosine_similarity(a, b) and
\* cosine_similarity(b, a) take the same branch at the zero test of the
\* denominator and return the same result: two f64 that are ==, or NaN
\* both times.
C6_CosineSymmetric ==
    (/\ fn = "cosine_similarity"
     /\ Done
     /\ Len(in_a) = Len(in_b))
    => /\ outcome = "returned"
       /\ cosine_similarity(in_b, in_a).outcome = "returned"
       /\ cosine_similarity(in_b, in_a).divs = divs
       /\ SameResult(ret_num, cosine_similarity(in_b, in_a).num)

C6_Witness ==
    /\ fn = "cosine_similarity"
    /\ outcome = "returned"
    /\ Len(in_a) = MaxLen
    /\ in_a # in_b
    /\ divs = 1
    /\ IsFinite(ret_num)
    /\ ret_num.neg
    /\ ~IsZero(ret_num)

\* C7 (as claimed): euclidean_distance(a, b) == euclidean_distance(b, a)
\* for all a, b of equal length.
C7_EuclideanSymmetricEq ==
    (/\ fn = "euclidean_distance"
     /\ Done
     /\ Len(in_a) = Len(in_b))
    => /\ outcome = "returned"
       /\ \A zero \in SumNeutral :
            FEq(ret_num, euclidean_distance(in_b, in_a, zero).num)

\* C7 (amended): for all a, b of equal length euclidean_distance(a, b) and
\* euclidean_distance(b, a) return the same result: two f64 that are ==,
\* or NaN both times.
C7_EuclideanSymmetric ==
    (/\ fn = "euclidean_distance"
     /\ Done
     /\ Len(in_a) = Len(in_b))
    => /\ outcome = "returned"
       /\ \A zero \in SumNeutral :
            SameResult(ret_num, euclidean_distance(in_b, in_a, zero).num)

C7_Witness ==
    /\ fn = "euclidean_distance"
    /\ outcome = "returned"
    /\ Len(in_a) = MaxLen
    /\ in_a[1] # in_b[1]
    /\ in_a[MaxLen] # in_b[MaxLen]
    /\ IsFinite(ret_num)
    /\ ~IsZero(ret_num)

\* C8 (as claimed): euclidean_distance(a, a) returns 0.0 for every vector a.
C8_SelfDistanceZeroAll ==
    (/\ fn = "euclidean_distance"
     /\ Done
     /\ in_a = in_b)
    => /\ outcome = "returned"
       /\ FEq(ret_num, PosZero)

\* C8 (amended): euclidean_distance(a, a) returns 0.0 for every vector a
\* of finite components, the empty and the all-zero vector included.
C8_SelfDistanceZero ==
    (/\ fn = "euclidean_distance"
     /\ Done
     /\ in_a = in_b
     /\ AllFinite(in_a))
    => /\ outcome = "returned"
       /\ FEq(ret_num, PosZero)

C8_Witness ==
    /\ fn = "euclidean_distance"
    /\ outcome = "returned"
    /\ in_a = in_b
    /\ Len(in_a) = MaxLen
    /\ AllFinite(in_a)
    /\ \A i \in 1..Len(in_a) : ~IsZero(in_a[i])
    /\ ret_num = PosZero

\* C9 (as claimed, on finite inputs): cosine_similarity(a, a) is 1.0 within
\* the tolerance for every vector a of finite components and non-zero norm.
C9_SelfSimilarityOne ==
    (/\ fn = "cosine_similarity"
     /\ Done
     /\ in_a = in_b
     /\ NonZeroNorm(in_a))
    => /\ outcome = "returned"
       /\ NearOne(ret_num)

\* C10: no call changes the caller's vectors, and normalize returns, in
\* the zero-norm branch and in the other, a vector it allocated, as long as
\* its input.
C10_InputsUntouched ==
    [][/\ in_a' = in_a
       /\ in_b' = in_b
       /\ (fn = "normalize" /\ outcome' = "returned")
            => /\ ret_buf' = "new"
               /\ Len(ret_vec') = Len(in_a)]_vars

C10_Witness ==
    /\ fn = "normalize"
    /\ outcome = "returned"
    /\ ret_buf = "new"
    /\ Len(in_a) = MaxLen
    /\ Len(ret_vec) = MaxLen
    /\ ret_vec # in_a

(* ----------------------------------------------------------------------- *)
(* Concurrent calls of VectorUtils                                         *)
(*                                                                         *)
(* Each thread calls one function on vectors of its own.  A call advances  *)
(* one loop iteration at a time, so the calls interleave at every          *)
(* iteration; what a call reads and writes are its arguments and the       *)
(* locals of its own stack frame.                                          *)
(* ----------------------------------------------------------------------- *)

Threads == {"t1", "t2"}

\* the vectors the threads pass: empty, all zero, and of full length
ThreadVectors ==
    {<<>>,
     [i \in 1..MaxLen |-> PosZero],
     [i \in 1..MaxLen |-> Fin(TRUE, 3 * (UnitOne \div 2))],
     [i \in 1..MaxLen |-> IF i = 1 THEN MaxFloat ELSE One]}

ThreadCalls ==
    {[fn |-> f, a |-> a, b |-> b] :
        f \in {"cosine_similarity", "euclidean_distance"},
        a \in ThreadVectors, b \in ThreadVectors}
    \cup {[fn |-> "normalize", a |-> a, b |-> <<>>] : a \in ThreadVectors}

\* the call has not returned
Pending ==
    [outcome |-> "pending", num |-> NoFloat, vec |-> <<>>, buf |-> "none",
     ops |-> 0, divs |-> 0]

\* the stack frame of a call: loop index, accumulators, the Vec collected
Frame(i, dot_product, norm_a, norm_b, sum, norm, out) ==
    [i |-> i, dot_product |-> dot_product, norm_a |-> norm_a,
     norm_b |-> norm_b, sum |-> sum, norm |-> norm, out |-> out]

EmptyFrame == Frame(0, PosZero, PosZero, PosZero, PosZero, PosZero, <<>>)

ThreadsInit ==
    /\ t_call \in [Threads -> ThreadCalls]
    /\ t_pc = [t \in Threads |-> "entry"]
    /\ t_local = [t \in Threads |-> EmptyFrame]
    /\ t_ret = [t \in Threads |-> Pending]
    /\ VectorIdle
    /\ FactoryIdle
    /\ HealthIdle

\* thread t returns r
TReturn(t, r) ==
    /\ t_ret' = [t_ret EXCEPT ![t] = r]
    /\ t_pc' = [t_pc EXCEPT ![t] = "done"]

\* entry of the call: the length check, then the locals
TEnter(t) ==
    /\ t_pc[t] = "entry"
    /\ LET call == t_call[t] IN
       IF call.fn # "normalize" /\ Len(call.a) # Len(call.b)
       THEN /\ TReturn(t, Panicked(0))
            /\ UNCHANGED t_local
       ELSE /\ \E zero \in SumNeutral :
                 t_local' = [t_local EXCEPT ![t] =
                   Frame(1, PosZero, PosZero, PosZero,
                         IF call.fn = "cosine_similarity" THEN PosZero
                         ELSE zero,
                         PosZero, <<>>)]
            /\ t_pc' = [t_pc EXCEPT ![t] = "loop"]
            /\ UNCHANGED t_ret
    /\ UNCHANGED <<t_call, vars, fvars, hvars>>

\* one iteration of the accumulating loop of `call`, at index i, on the
\* accumulators of frame
Accumulate(call, i, frame) ==
    IF call.fn = "cosine_similarity"
    THEN [frame EXCEPT
            !.dot_product = FAdd(@, FMul(call.a[i], call.b[i])),
            !.norm_a = FAdd(@, FMul(call.a[i], call.a[i])),
            !.norm_b = FAdd(@, FMul(call.b[i], call.b[i]))]
    ELSE IF call.fn = "euclidean_distance"
    THEN LET diff == FSub(call.a[i], call.b[i])
         IN  [frame EXCEPT !.sum = FAdd(@, FMul(diff, diff))]
    ELSE [frame EXCEPT !.sum = FAdd(@, FMul(call.a[i], call.a[i]))]

\* the loop with its accumulators in statics that all threads share (here:
\* the slots of t1) instead of locals
TLoopStatic(t) ==
    /\ t_pc[t] = "loop"
    /\ t_local[t].i <= Len(t_call[t].a)
    /\ LET acc == Accumulate(t_call[t], t_local[t].i, t_local["t1"])
       IN  t_local' =
             [u \in Threads |->
                IF u = "t1"
                THEN [acc EXCEPT !.i = IF t = "t1" THEN t_local[t].i + 1
                                       ELSE t_local["t1"].i]
                ELSE IF u = t
                THEN [t_local[t] EXCEPT !.i = @ + 1]
                ELSE t_local[u]]
    /\ UNCHANGED <<t_call, t_pc, t_ret, vars, fvars, hvars>>

\* one iteration of the accumulating loop
TLoop(t) ==
    /\ t_pc[t] = "loop"
    /\ t_local[t].i <= Len(t_call[t].a)
    /\ t_local' = [t_local EXCEPT ![t] =
         [Accumulate(t_call[t], t_local[t].i, t_local[t])
            EXCEPT !.i = @ + 1]]
    /\ UNCHANGED <<t_call, t_pc, t_ret, vars, fvars, hvars>>

\* after the loop: the square roots, the zero test, the result
TAfterLoop(t) ==
    /\ t_pc[t] = "loop"
    /\ t_local[t].i > Len(t_call[t].a)
    /\ LET call == t_call[t]
           frame == t_local[t]
           n == Len(call.a)
       IN  IF call.fn = "cosine_similarity"
           THEN \E root_a \in {FSqrt(frame.norm_a)},
                   root_b \in {FSqrt(frame.norm_b)} :
                  \E denominator \in {FMul(root_a, root_b)} :
                    /\ TReturn(t,
                         IF FEq(denominator, PosZero)
                         THEN ReturnedNum(PosZero, 6 * n + 3, 0)
                         ELSE ReturnedNum(FDiv(frame.dot_product, denominator),
                                          6 * n + 4, 1))
                    /\ UNCHANGED t_local
           ELSE IF call.fn = "euclidean_distance"
           THEN /\ TReturn(t, ReturnedNum(FSqrt(frame.sum), 3 * n + 1, 0))
                /\ UNCHANGED t_local
           ELSE \E norm \in {FSqrt(frame.sum)} :
                  IF FEq(norm, PosZero)
                  THEN /\ TReturn(t, ReturnedVec(call.a, 2 * n + 1, 0))
                       /\ UNCHANGED t_local
                  ELSE /\ t_local' = [t_local EXCEPT ![t] =
                            [frame EXCEPT !.norm = norm, !.i = 1]]
                       /\ t_pc' = [t_pc EXCEPT ![t] = "scale"]
                       /\ UNCHANGED t_ret
    /\ UNCHANGED <<t_call, vars, fvars, hvars>>

\* normalize: one x / norm of the map
TScale(t) ==
    /\ t_pc[t] = "scale"
    /\ t_local[t].i <= Len(t_call[t].a)
    /\ t_local' = [t_local EXCEPT ![t] =
         [@ EXCEPT !.out = Append(@, FDiv(t_call[t].a[t_local[t].i],
                                          t_local[t].norm)),
                   !.i = @ + 1]]
    /\ UNCHANGED <<t_call, t_pc, t_ret, vars, fvars, hvars>>

\* normalize: collect() hands the Vec back
TCollect(t) ==
    /\ t_pc[t] = "scale"
    /\ t_local[t].i > Len(t_call[t].a)
    /\ LET n == Len(t_call[t].a)
       IN  TReturn(t, ReturnedVec(t_local[t].out, 3 * n + 1, n))
    /\ UNCHANGED <<t_call, t_local, vars, fvars, hvars>>

\* the next step of thread t
TStep(t) ==
    \/ TEnter(t)
    \/ TLoop(t)
    \/ TAfterLoop(t)
    \/ TScale(t)
    \/ TCollect(t)

ThreadsNext == \E t \in Threads : TStep(t)

SpecThreads == ThreadsInit /\ [][ThreadsNext]_allvars

\* what the call returns when it runs alone
Alone(call) ==
    IF call.fn = "cosine_similarity"
    THEN {cosine_similarity(call.a, call.b)}
    ELSE IF call.fn = "euclidean_distance"
    THEN {euclidean_distance(call.a, call.b, zero) : zero \in SumNeutral}
    ELSE {normalize(call.a, zero) : zero \in SumNeutral}

\* C11: under every interleaving of concurrent calls of cosine_similarity,
\* normalize and euclidean_distance, each on its own vectors, a call that
\* has ended has the result it has when run alone, and no call waits for
\* another: whatever the other threads are doing, a call that has not ended
\* can take its next step.
C11_ThreadsIndependent ==
    \A t \in Threads :
      /\ t_pc[t] = "done" => t_ret[t] \in Alone(t_call[t])
      /\ t_pc[t] # "done" => ENABLED TStep(t)

C11_Witness ==
    /\ t_pc["t1"] = "done"
    /\ t_pc["t2"] = "scale"
    /\ t_local["t2"].i = MaxLen
    /\ t_call["t1"].fn = "cosine_similarity"
    /\ t_ret["t1"].divs = 1
    /\ t_call["t1"].a # t_call["t2"].a

(* ----------------------------------------------------------------------- *)
(* ClientFactory shared by several threads                                 *)
(* ----------------------------------------------------------------------- *)

\* the calls all threads make on the factory, at most
MaxCalls == 3

\* the names and the configurations the callers pass
Names == {"a", "b"}
Configs == {"c1", "c2"}

\* a BrainAISDK: its config and its Agent (Agents are numbered as built)
Client(config, agent) == [config |-> config, agent |-> agent]
NoClient == Client("none", 0)

\* BrainAISDK::new with the agent-th Agent
BrainAISDK_new(config, agent) == Client(config, agent)

\* <BrainAISDK as Clone>::clone: the config cloned, a new Agent
Clone(client, agent) == Client(client.config, agent)

FactoryCall(op, name, config) == [op |-> op, name |-> name, config |-> config]
NoCall == FactoryCall("none", "none", "none")
FactoryCalls ==
    {FactoryCall("get_instance", n, c) : n \in Names, c \in Configs}
    \cup {FactoryCall("remove_instance", n, "none") : n \in Names}
    \cup {FactoryCall("clear_all", "none", "none")}

\* HashMap::get: the entries under the key (clients is a set of
\* <<name, client>>)
MapGet(map, name) == {e \in map : e[1] = name}
\* HashMap::remove
MapRemove(map, name) == {e \in map : e[1] # name}
\* HashMap::insert: the value under the key is replaced
MapInsert(map, name, client) == MapRemove(map, name) \cup {<<name, client>>}

FactoryInit ==
    /\ clients = {}
    /\ mutex = "free"
    /\ agents = 0
    /\ f_call = [t \in Threads |-> NoCall]
    /\ f_pc = [t \in Threads |-> "idle"]
    /\ f_ret = [t \in Threads |-> NoClient]
    /\ f_log = <<>>
    /\ VectorIdle
    /\ ThreadsIdle
    /\ HealthIdle

\* a thread calls get_instance, remove_instance or clear_all
FCall(t) ==
    /\ f_pc[t] = "idle"
    /\ Len(f_log) + Cardinality({u \in Threads : f_pc[u] = "lock"}) < MaxCalls
    /\ \E call \in FactoryCalls : f_call' = [f_call EXCEPT ![t] = call]
    /\ f_pc' = [f_pc EXCEPT ![t] = "lock"]
    /\ f_ret' = [f_ret EXCEPT ![t] = NoClient]
    /\ UNCHANGED <<clients, mutex, agents, f_log, vars, tvars, hvars>>

\* lock() that hands out the guard while another thread holds it
FLockNoWait(t) ==
    /\ f_pc[t] = "lock"
    /\ mutex' = t
    /\ f_pc' = [f_pc EXCEPT ![t] = "locked"]
    /\ f_log' = Append(f_log, f_call[t])
    /\ UNCHANGED <<clients, agents, f_call, f_ret, vars, tvars, hvars>>

\* self.clients.lock().unwrap(): waits until the mutex is free.  Nothing
\* panics while the guard is held, so the mutex is never poisoned.
FLock(t) ==
    /\ f_pc[t] = "lock"
    /\ mutex = "free"
    /\ mutex' = t
    /\ f_pc' = [f_pc EXCEPT ![t] = "locked"]
    /\ f_log' = Append(f_log, f_call[t])
    /\ UNCHANGED <<clients, agents, f_call, f_ret, vars, tvars, hvars>>

\* get_instance: clients.get(name); Some(client) => client.clone(),
\* None => BrainAISDK::new(config)
FLookup(t) ==
    /\ f_pc[t] = "locked"
    /\ f_call[t].op = "get_instance"
    /\ agents' = agents + 1
    /\ IF MapGet(clients, f_call[t].name) # {}
       THEN /\ \E e \in MapGet(clients, f_call[t].name) :
                 f_ret' = [f_ret EXCEPT ![t] = Clone(e[2], agents + 1)]
            /\ f_pc' = [f_pc EXCEPT ![t] = "unlock"]
       ELSE /\ f_ret' = [f_ret EXCEPT ![t] =
                 BrainAISDK_new(f_call[t].config, agents + 1)]
            /\ f_pc' = [f_pc EXCEPT ![t] = "insert"]
    /\ UNCHANGED <<clients, mutex, f_call, f_log, vars, tvars, hvars>>

\* get_instance: clients.insert(name.to_string(), client.clone())
FInsert(t) ==
    /\ f_pc[t] = "insert"
    /\ agents' = agents + 1
    /\ clients' = MapInsert(clients, f_call[t].name,
                            Clone(f_ret[t], agents + 1))
    /\ f_pc' = [f_pc EXCEPT ![t] = "unlock"]
    /\ UNCHANGED <<mutex, f_call, f_ret, f_log, vars, tvars, hvars>>

\* remove_instance: clients.remove(name)
FRemove(t) ==
    /\ f_pc[t] = "locked"
    /\ f_call[t].op = "remove_instance"
    /\ clients' = MapRemove(clients, f_call[t].name)
    /\ f_pc' = [f_pc EXCEPT ![t] = "unlock"]
    /\ UNCHANGED <<mutex, agents, f_call, f_ret, f_log, vars, tvars, hvars>>

\* clear_all: clients.clear()
FClear(t) ==
    /\ f_pc[t] = "locked"
    /\ f_call[t].op = "clear_all"
    /\ clients' = {}
    /\ f_pc' = [f_pc EXCEPT ![t] = "unlock"]
    /\ UNCHANGED <<mutex, agents, f_call, f_ret, f_log, vars, tvars, hvars>>

\* the MutexGuard is dropped as the function returns
FUnlock(t) ==
    /\ f_pc[t] = "unlock"
    /\ mutex' = "free"
    /\ f_pc' = [f_pc EXCEPT ![t] = "idle"]
    /\ UNCHANGED <<clients, agents, f_call, f_ret, f_log, vars, tvars, hvars>>

FactoryNext ==
    \E t \in Threads :
      \/ FCall(t)
      \/ FLock(t)
      \/ FLookup(t)
      \/ FInsert(t)
      \/ FRemove(t)
      \/ FClear(t)
      \/ FUnlock(t)

SpecFactory == FactoryInit /\ [][FactoryNext]_allvars

\* the calls of log that removed name or cleared the map
Resets(log, name) ==
    {i \in 1..Len(log) :
        \/ log[i].op = "clear_all"
        \/ log[i].op = "remove_instance" /\ log[i].name = name}

\* the get_instance calls for name after the last such call
GetsSince(log, name) ==
    {i \in 1..Len(log) :
        /\ log[i].op = "get_instance"
        /\ log[i].name = name
        /\ \A r \in Resets(log, name) : r < i}

\* the config of the earliest get_instance for name since name was last
\* removed or cleared; "none" without one
FirstConfig(log, name) ==
    IF GetsSince(log, name) = {} THEN "none"
    ELSE log[CHOOSE i \in GetsSince(log, name) :
               \A j \in GetsSince(log, name) : i <= j].config

\* the thread is between lock() and the drop of its guard
HoldsGuard(t) == f_pc[t] \in {"locked", "insert", "unlock"}

\* C12: under every interleaving of get_instance, remove_instance and
\* clear_all on one factory, only the holder of the mutex is inside a call's
\* body, the map has at most one entry per name, a get_instance returns a
\* client with the config of the earliest get_instance for its name since
\* that name was last removed or cleared (the order being that of taking the
\* lock), and between calls the map holds exactly those first configs.
C12_FirstWriterWins ==
    /\ \A t \in Threads : HoldsGuard(t) => mutex = t
    /\ \A e1 \in clients : \A e2 \in clients : e1[1] = e2[1] => e1 = e2
    /\ \A t \in Threads :
         f_pc[t] = "unlock" /\ f_call[t].op = "get_instance"
           => f_ret[t].config = FirstConfig(f_log, f_call[t].name)
    /\ mutex = "free"
         => {<<e[1], e[2].config>> : e \in clients}
              = {<<n, FirstConfig(f_log, n)>> :
                   n \in {m \in Names : FirstConfig(f_log, m) # "none"}}

\* t2's get_instance("a", c2) took the lock after t1's
\* get_instance("a", c1) and is about to return a client with c1
C12_Witness ==
    /\ Len(f_log) = 2
    /\ f_log[1] = FactoryCall("get_instance", "a", "c1")
    /\ f_log[2] = FactoryCall("get_instance", "a", "c2")
    /\ f_call["t2"] = f_log[2]
    /\ f_pc["t2"] = "unlock"
    /\ f_ret["t2"].config = "c1"
    /\ f_call["t1"] = f_log[1]
    /\ f_pc["t1"] = "idle"

(* ----------------------------------------------------------------------- *)
(* BrainAISDK::health_check                                                *)
(* ----------------------------------------------------------------------- *)

\* A JSON document as it stands in the body: the members of an object are a
\* sequence of <<name, document>> in text order (a name may repeat).
Doc(type, str, members) == [type |-> type, str |-> str, members |-> members]
DStr(str) == Doc("string", str, <<>>)
DObj(members) == Doc("object", "", members)

\* A serde_json::Value: the fields of an Object are a map, here a set of
\* <<name, value>>.
Value(type, str, fields) == [type |-> type, str |-> str, fields |-> fields]
NoValue == Value("none", "", {})

\* serde_json::from_str on a well-formed document: a repeated name keeps its
\* last value
RECURSIVE ToValue(_)
ToValue(doc) ==
    Value(doc.type, doc.str,
          IF doc.type # "object" THEN {}
          ELSE {<<doc.members[i][1], ToValue(doc.members[i][2])>> :
                  i \in {k \in 1..Len(doc.members) :
                           \A l \in (k + 1)..Len(doc.members) :
                              doc.members[l][1] # doc.members[k][1]}})

\* Value::get(key): the field of an Object, None on anything else
ValueGet(value, key) ==
    IF value.type = "object" THEN {f[2] : f \in {g \in value.fields : g[1] = key}}
    ELSE {}

\* Value::as_str: Some for a String only
AsStr(value) == IF value.type = "string" THEN {value.str} ELSE {}

\* the documents the service may send
Docs ==
    {DObj(<<<<"status", DStr("healthy")>>>>),
     DObj(<<<<"status", DStr("healthy")>>, <<"version", DStr("1.0")>>>>),
     DObj(<<<<"status", DStr("unhealthy")>>>>),
     DObj(<<<<"status", DStr("Healthy")>>>>),
     DObj(<<<<"status", Doc("bool", "true", <<>>)>>>>),
     DObj(<<<<"status", Doc("null", "", <<>>)>>>>),
     DObj(<<<<"status", DObj(<<<<"status", DStr("healthy")>>>>)>>>>),
     DObj(<<<<"state", DStr("healthy")>>>>),
     DObj(<<<<"status", DStr("healthy")>>, <<"status", DStr("down")>>>>),
     DObj(<<<<"status", DStr("down")>>, <<"status", DStr("healthy")>>>>),
     DObj(<<>>),
     DStr("healthy"),
     Doc("array", "", <<<<"", DStr("healthy")>>>>)}

\* a body: readable or not (into_string fails), well-formed JSON or not
Body(readable, wellformed, doc) ==
    [readable |-> readable, wellformed |-> wellformed, doc |-> doc]
Bodies ==
    {Body(TRUE, TRUE, d) : d \in Docs}
    \cup {Body(TRUE, FALSE, DStr("")), Body(TRUE, FALSE, DStr("healthy")),
          Body(FALSE, FALSE, DStr(""))}

\* what comes of request.call() within the timeout
Outcome(kind, status, body) == [kind |-> kind, status |-> status, body |-> body]
NoOutcome == Outcome("none", 0, Body(FALSE, FALSE, DStr("")))
Outcomes ==
    {Outcome("timeout", 0, Body(FALSE, FALSE, DStr(""))),
     Outcome("transport", 0, Body(FALSE, FALSE, DStr("")))}
    \cup {Outcome("response", st, b) :
            st \in {200, 204, 304, 404, 500}, b \in Bodies}

\* Result<_, BrainAIError>
Ok(value) == [ok |-> TRUE, value |-> value, err |-> "none"]
Err(err) == [ok |-> FALSE, value |-> NoValue, err |-> err]
NoResult == [ok |-> FALSE, value |-> NoValue, err |-> "none"]

\* BrainAISDK::make_request from request.call() on.  ureq's call() gives
\* Err(Error::Status) for a status of 400 and above.
make_request(method, reply) ==
    IF method \notin {"GET", "POST", "PUT", "PATCH", "DELETE"}
    THEN Err("Other")
    ELSE IF reply.kind = "timeout" THEN Err("Timeout")
    ELSE IF reply.kind = "transport" \/ reply.status >= 400
    THEN Err("Request")
    ELSE IF ~(reply.status >= 200 /\ reply.status <= 299)
    THEN Err("HttpError")
    ELSE IF ~reply.body.readable THEN Err("Other")
    ELSE IF ~reply.body.wellformed THEN Err("Serialization")
    ELSE Ok(ToValue(reply.body.doc))

\* Result<bool, BrainAIError>
OkBool(b) == [ok |-> TRUE, value |-> b, err |-> "none"]
ErrBool(err) == [ok |-> FALSE, value |-> FALSE, err |-> err]
NoBool == [ok |-> FALSE, value |-> FALSE, err |-> "none"]

\* health_check handing the error of get_status on (match arm Err(e) =>
\* Err(e))
health_check_propagates(status) ==
    IF status.ok
    THEN OkBool(\E field \in ValueGet(status.value, "status") :
                   \E status_str \in AsStr(field) : status_str = "healthy")
    ELSE ErrBool(status.err)

\* BrainAISDK::health_check on the result of get_status
health_check(status) ==
    IF status.ok
    THEN IF \E field \in ValueGet(status.value, "status") : AsStr(field) # {}
         THEN OkBool(\E field \in ValueGet(status.value, "status") :
                        \E status_str \in AsStr(field) : status_str = "healthy")
         ELSE OkBool(FALSE)
    ELSE OkBool(FALSE)

\* the configs of the client: without and with an API key
HealthConfigs == {[api_key |-> k] : k \in {"None", "Some"}}

HealthInit ==
    /\ h_config \in HealthConfigs
    /\ h_pc = "entry"
    /\ h_request = "none"
    /\ h_response = NoOutcome
    /\ h_result = NoResult
    /\ h_ret = NoBool
    /\ VectorIdle
    /\ ThreadsIdle
    /\ FactoryIdle

\* health_check -> get_status -> make_request: the GET request with its
\* headers, request.call()
HSend ==
    /\ h_pc = "entry"
    /\ h_request' = [method |-> "GET", endpoint |-> "/api/status",
                     content_type |-> "application/json",
                     authorization |-> h_config.api_key]
    /\ h_pc' = "calling"
    /\ UNCHANGED <<h_config, h_response, h_result, h_ret, vars, tvars, fvars>>

\* the rest of make_request: the reply of the call and what is made of it
HMakeRequest ==
    /\ h_pc = "calling"
    /\ \E reply \in Outcomes :
         /\ h_response' = reply
         /\ h_result' = make_request(h_request.method, reply)
    /\ h_pc' = "returned"
    /\ UNCHANGED <<h_config, h_request, h_ret, vars, tvars, fvars>>

\* the match of health_check
HHealthCheck ==
    /\ h_pc = "returned"
    /\ h_ret' = health_check(h_result)
    /\ h_pc' = "done"
    /\ UNCHANGED <<h_config, h_request, h_response, h_result, vars, tvars, fvars>>

HealthNext == HSend \/ HMakeRequest \/ HHealthCheck

SpecHealth == HealthInit /\ [][HealthNext]_allvars

\* the request succeeded: a response came in time, with a 2xx status and a
\* body that could be read and is JSON
Succeeded(reply) ==
    /\ reply.kind = "response"
    /\ reply.status \in 200..299
    /\ reply.body.readable
    /\ reply.body.wellformed

\* the JSON value has a string field "status" equal to "healthy"
HasHealthyStatus(value) ==
    /\ value.type = "object"
    /\ \E f \in value.fields :
         f[1] = "status" /\ f[2].type = "string" /\ f[2].str = "healthy"

\* C13: health_check never returns an error: whatever came of the status
\* request (timeout, transport error, non-success status, unreadable or
\* unparsable body, success) it returns Ok, and Ok(true) exactly when the
\* request succeeded and the parsed JSON has a string field "status" equal
\* to "healthy"; Ok(false) otherwise.
C13_HealthCheckNeverErr ==
    h_pc = "done"
      => /\ h_ret.ok
         /\ h_ret.value <=> /\ Succeeded(h_response)
                            /\ HasHealthyStatus(ToValue(h_response.body.doc))

\* the status request timed out and health_check returned Ok(false)
C13_Witness ==
    /\ h_pc = "done"
    /\ h_response.kind = "timeout"
    /\ h_result = Err("Timeout")
    /\ h_ret = OkBool(FALSE)
====
